---- MODULE Spec2Model ----
(***************************************************************************)
(* Galileo E1 DLL/PLL VEML tracking block                                  *)
(* (galileo_e1_dll_pll_veml_tracking_cc.cc) as a state machine.            *)
(*                                                                         *)
(* Numbers.  The block computes in double precision; the model computes    *)
(* in fixed point:                                                         *)
(*   - sample quantities with a fractional part (d_acq_code_phase_samples, *)
(*     K_blk_samples, d_rem_code_phase_samples) are integers in units of   *)
(*     1/Scale sample;                                                     *)
(*   - carrier phases are integers in units of 1/GALILEO_TWO_PI cycle;     *)
(*   - time is counted in code periods (Galileo_E1_CODE_PERIOD = 1), the   *)
(*     code has CodeLengthChips chips and is sampled at one sample per     *)
(*     chip, so that d_vector_length = d_fs_in = CodeLengthChips;          *)
(*   - d_code_freq_chips is kept in units of 1/Galileo_E1_FREQ_HZ chip per *)
(*     period, which makes the code-aiding formula exact.                  *)
(* d_sample_counter is an unsigned long: its arithmetic wraps, which shows  *)
(* when a negative samples_offset is added to a smaller counter.  The      *)
(* difference stored in the int acq_to_trk_delay_samples is converted to   *)
(* the width of an int, scaled to IntModulus values: the conversion keeps  *)
(* the value of a difference below IntModulus / 2 and changes a larger     *)
(* one, as the 32-bit int does from 2^31 on.                               *)
(*                                                                         *)
(* The loop filters, discriminators, lock detectors and the correlator are *)
(* library code outside this file: their results enter each period as the  *)
(* inputs of general_work.                                                 *)
(*                                                                         *)
(* The aligned allocator (volk_gnsssdr_malloc.c) is modelled beside it, in *)
(* its three builds, over a small memory: address 0 is NULL, and the       *)
(* underlying allocator of the C library answers each request with NULL or *)
(* with the address of a free block.  size_t arithmetic wraps.             *)
(*                                                                         *)
(* A second controller of the same configuration (fresh) takes part in the *)
(* runs that compare two histories: it stays as constructed until          *)
(* start_tracking is called on both, and is then given the same results of *)
(* the library code in every period.                                       *)
(***************************************************************************)
EXTENDS Integers, Sequences, FiniteSets, TLC

\* ------------------------------------------------------------ constants
\* #define values of the tracking block
CN0_ESTIMATION_SAMPLES == 20
MINIMUM_VALID_CN0 == 25
MAXIMUM_LOCK_FAIL_COUNTER == 50
\* CARRIER_LOCK_THRESHOLD 0.85, in hundredths (d_carrier_lock_test is in hundredths)
CARRIER_LOCK_THRESHOLD == 85

\* fixed-point resolution of fractional sample quantities (units per sample)
Scale == 2
\* phase units per carrier cycle
GALILEO_TWO_PI == 8
\* chips per code period (scaled Galileo_E1_B_CODE_LENGTH_CHIPS)
CodeLengthChips == 4
\* carrier cycles per code period (scaled Galileo_E1_FREQ_HZ)
Galileo_E1_FREQ_HZ == 24

Galileo_E1_CODE_PERIOD == 1
Galileo_E1_B_CODE_LENGTH_CHIPS == CodeLengthChips
Galileo_E1_CODE_CHIP_RATE_HZ == Galileo_E1_B_CODE_LENGTH_CHIPS \div Galileo_E1_CODE_PERIOD

\* constructor arguments (immutable after construction)
d_vector_length == CodeLengthChips
d_fs_in == d_vector_length \div Galileo_E1_CODE_PERIOD
\* constructor: d_correlation_length_samples = d_vector_length, never reassigned
d_correlation_length_samples == d_vector_length

\* ------------------------------------------------------------ bounds
\* general_work is not called any more once d_sample_counter exceeds the horizon
MaxSampleCounter == 12
\* horizon of the loss-of-lock runs, in nominal code periods
MaxLockPeriods == 1076
\* horizon of the runs with silent discriminators, in nominal code periods
MaxZeroPeriods == 44
\* channel numbers given to set_channel are 0 .. MaxChannel
MaxChannel == 3
\* allocator runs: bytes of memory the underlying allocator has to give
HeapSize == 16
\* allocator runs: requested sizes are 1 .. MaxSize bytes
MaxSize == 2
\* allocator runs: requested alignments are 2^0 .. 2^MaxAlignmentLog2
MaxAlignmentLog2 == 3
\* allocator runs: blocks alive at one time
MaxBlocks == 1
\* in the loss-of-lock runs start_tracking is called while d_sample_counter is at most this
MaxLockStart == 8
\* horizon of the runs with a second loss of lock, in nominal code periods
MaxRelockPeriods == 2220
\* in those runs the lock evaluations can pass during this many nominal code periods
MaxPassPeriods == 64
\* horizon of the late-activation runs, in nominal code periods
MaxIntPeriods == 72

VARIABLES
    d_acquisition_gnss_synchro,   \* "null" or "set": the pointer to the acquisition hint
    d_acq_code_phase_samples,     \* 1/Scale samples
    d_acq_carrier_doppler_hz,
    d_acq_sample_stamp,
    d_enable_tracking,
    d_pull_in,
    d_sample_counter,
    d_current_prn_length_samples,
    d_rem_code_phase_samples,     \* 1/Scale samples
    d_rem_carr_phase_rad,         \* 1/GALILEO_TWO_PI cycles
    d_carrier_doppler_hz,
    d_code_freq_chips,            \* 1/Galileo_E1_FREQ_HZ chips per period
    d_cn0_estimation_counter,
    d_carrier_lock_test,          \* hundredths
    d_CN0_SNV_dB_Hz,
    d_carrier_lock_fail_counter,
    d_acc_carrier_phase_rad,      \* 1/GALILEO_TWO_PI cycles
    d_acc_code_phase_secs,        \* 1/(Scale * d_fs_in) periods
    d_carrier_loop_filter,        \* "constructed", "initialized" (initialize()), "running" (get_carrier_nco())
    d_code_loop_filter,           \* "constructed", "initialized" (initialize()), "running" (get_code_nco())
    d_channel,
    d_ca_code,                    \* "null" or "allocated": what volk_gnsssdr_malloc returned
    d_correlator_outs,            \* "null" or "allocated"
    d_local_code_shift_chips,     \* "null" or "allocated"
    fault,                        \* "none", or the fatal outcome the process ended in
    \* what the most recent call did, as seen by the scheduler
    last_call,                    \* "none", "set_gnss_synchro", "start_tracking", "pull_in", "tracking", "idle"
    out,                          \* records written to out[0] by the most recent general_work
    work_return,                  \* value returned by the most recent general_work
    consumed,                     \* argument of consume_each in the most recent general_work
    nitems_read,                  \* input samples consumed since construction
    correlated,                   \* samples given to the correlator in the most recent general_work
    events,                       \* messages published on "events" by the most recent general_work
    lock_fail_peak,               \* d_carrier_lock_fail_counter after line 408 of the most recent general_work
    K_blk_last,                   \* K_blk_samples computed by the most recent general_work (0: none), 1/Scale samples
    prompt_stored,                \* the most recent general_work stored *d_Prompt in d_Prompt_buffer (line 387)
    lock_evaluated,               \* the most recent general_work ran the lock detectors (lines 395-398)
    \* history since the last start_tracking
    all_failed,                   \* every lock evaluation since then failed
    periods_since_start,          \* general_work calls since then (while all_failed)
    lost_since_start,             \* a loss_of_lock event was published since then
    null_access,                  \* a read or write through a null pointer has been made
    \* volk_gnsssdr_malloc.c
    alloc_build,                  \* which of the three variants the preprocessor selected
    heap,                         \* live blocks of the underlying allocator: [real, len]
    user_ptrs,                    \* pointers volk_gnsssdr_malloc returned, not yet given to volk_gnsssdr_free
    block_info,                   \* fallback variant: header address -> the real pointer stored there
    malloc_call,                  \* the most recent volk_gnsssdr_malloc call and its outcome
    alloc_fault,                  \* "none", or the fatal outcome of an allocator call
    \* a second controller of the same configuration, freshly constructed
    fresh                         \* its fields, and whether it has been activated together with the first

prog_vars == <<d_acquisition_gnss_synchro, d_acq_code_phase_samples, d_acq_carrier_doppler_hz,
    d_acq_sample_stamp, d_enable_tracking, d_pull_in, d_sample_counter,
    d_current_prn_length_samples, d_rem_code_phase_samples, d_rem_carr_phase_rad,
    d_carrier_doppler_hz, d_code_freq_chips, d_cn0_estimation_counter, d_carrier_lock_test,
    d_CN0_SNV_dB_Hz, d_carrier_lock_fail_counter, d_acc_carrier_phase_rad, d_acc_code_phase_secs,
    d_carrier_loop_filter, d_code_loop_filter, d_channel, d_ca_code, d_correlator_outs,
    d_local_code_shift_chips, fault>>

io_vars == <<last_call, out, work_return, consumed, nitems_read, correlated, events, lock_fail_peak,
    K_blk_last, prompt_stored, lock_evaluated>>

hist_vars == <<all_failed, periods_since_start, lost_since_start, null_access>>

alloc_vars == <<alloc_build, heap, user_ptrs, block_info, malloc_call, alloc_fault>>

twin_vars == <<fresh>>

vars == <<prog_vars, io_vars, hist_vars, alloc_vars, twin_vars>>

\* ------------------------------------------------------------ arithmetic
Abs(x) == IF x < 0 THEN -x ELSE x

\* std::fmod(x, y), y > 0: the remainder of the division truncated toward zero;
\* the result has the sign of x
fmod(x, y) == IF x >= 0 THEN x % y ELSE -((-x) % y)

\* variant: conversion to int without round(), truncating toward zero
round_truncating(x) == IF x >= 0 THEN x \div Scale ELSE -((-x) \div Scale)

\* round() of a value given in 1/Scale units: nearest integer, halfway cases away from zero
round(x) == IF x >= 0 THEN (2 * x + Scale) \div (2 * Scale) ELSE -((2 * (-x) + Scale) \div (2 * Scale))

\* unsigned long arithmetic of d_sample_counter wraps; the modulus stands for 2^64
SampleCounterModulus == 2^30
WrapCounter(x) == x % SampleCounterModulus

\* an int holds IntModulus values (the modulus stands for 2^32); the conversion of an
\* unsigned long to int keeps the low bits, as two's complement
IntModulus == 2^8
to_int(x) == LET r == x % IntModulus IN IF r >= IntModulus \div 2 THEN r - IntModulus ELSE r

\* ------------------------------------------------------------ memory
\* Addresses: 0 is NULL; the underlying allocator gives out HeapBase .. MemSize.  The
\* addresses below HeapBase are not part of any block: they are what a pointer computed
\* from NULL by the fallback variant can hit.
HeapBase == 2^MaxAlignmentLog2 + 1
MemSize == HeapBase + HeapSize - 1
Addresses == 0 .. MemSize

\* size_t and uintptr_t have SizeBits bits, the fewest that address the whole memory;
\* arithmetic on a size_t wraps modulo SIZE_MAX + 1
SizeBits == CHOOSE k \in 1 .. 16 : 2^(k - 1) <= MemSize /\ MemSize < 2^k
SIZE_MAX == 2^SizeBits - 1
WrapSize(x) == x % (SIZE_MAX + 1)

\* ------------------------------------------------------------ construction
\* what volk_gnsssdr_malloc can hand to the constructor
AllocationResults == {"null", "allocated"}

\* the allocator at rest: nothing allocated, no call made
allocator_at_rest(build) ==
    /\ alloc_build = build
    /\ heap = {}
    /\ user_ptrs = {}
    /\ block_info = [a \in Addresses |-> 0]
    /\ malloc_call = [size |-> 0, alignment |-> 1, available |-> FALSE, ptr |-> 0, wrote |-> FALSE]
    /\ alloc_fault = "none"

\* state after the constructor when its three volk_gnsssdr_malloc calls returned ca, co
\* and sh.  The constructor tests none of them: it writes d_correlator_outs[n] (line 140)
\* and d_local_code_shift_chips[n] (lines 151-155) at once; a write through a null
\* pointer is undefined, it traps (fault) or the constructor runs on.
galileo_e1_dll_pll_veml_tracking_cc(ca, co, sh) ==
    /\ d_ca_code = ca
    /\ d_correlator_outs = co
    /\ d_local_code_shift_chips = sh
    /\ null_access = (co = "null" \/ sh = "null")
    /\ fault \in (IF co = "null" \/ sh = "null" THEN {"null_dereference", "none"} ELSE {"none"})
    /\ d_acc_carrier_phase_rad = 0
    /\ d_acc_code_phase_secs = 0
    /\ d_carrier_loop_filter = "constructed"
    /\ d_code_loop_filter = "constructed"
    /\ d_channel = 0
    /\ d_acquisition_gnss_synchro = "null"
    /\ d_acq_code_phase_samples = 0
    /\ d_acq_carrier_doppler_hz = 0
    /\ d_acq_sample_stamp = 0
    /\ d_enable_tracking = FALSE
    /\ d_pull_in = FALSE
    /\ d_sample_counter = 0
    /\ d_current_prn_length_samples = d_vector_length
    /\ d_rem_code_phase_samples = 0
    /\ d_rem_carr_phase_rad = 0
    /\ d_carrier_doppler_hz = 0
    /\ d_code_freq_chips = Galileo_E1_CODE_CHIP_RATE_HZ * Galileo_E1_FREQ_HZ
    /\ d_cn0_estimation_counter = 0
    /\ d_carrier_lock_test = 100
    /\ d_CN0_SNV_dB_Hz = 0
    /\ d_carrier_lock_fail_counter = 0
    /\ last_call = "none"
    /\ out = <<>>
    /\ work_return = 0
    /\ consumed = 0
    /\ nitems_read = 0
    /\ correlated = 0
    /\ events = <<>>
    /\ lock_fail_peak = 0
    /\ K_blk_last = 0
    /\ prompt_stored = FALSE
    /\ lock_evaluated = FALSE
    /\ all_failed = FALSE
    /\ periods_since_start = 0
    /\ lost_since_start = FALSE

\* the fields of a second controller after its constructor (lines 163-184), as far as
\* the lock logic reads them; it takes no part in a run until it is activated
fresh_constructed ==
    fresh = [activated |-> FALSE,
             d_enable_tracking |-> FALSE,
             d_pull_in |-> FALSE,
             d_acq_carrier_doppler_hz |-> 0,
             d_code_freq_chips |-> Galileo_E1_CODE_CHIP_RATE_HZ * Galileo_E1_FREQ_HZ,
             d_cn0_estimation_counter |-> 0,
             d_carrier_lock_test |-> 100,
             d_CN0_SNV_dB_Hz |-> 0,
             d_carrier_lock_fail_counter |-> 0,
             events |-> <<>>]

\* state after a construction in which every allocation succeeded
Init ==
    /\ galileo_e1_dll_pll_veml_tracking_cc("allocated", "allocated", "allocated")
    /\ allocator_at_rest("aligned_alloc")
    /\ fresh_constructed

\* ------------------------------------------------------------ control operations
set_gnss_synchro ==
    /\ fault = "none"
    /\ d_acquisition_gnss_synchro' = "set"
    /\ last_call' = "set_gnss_synchro"
    /\ UNCHANGED <<d_acq_code_phase_samples, d_acq_carrier_doppler_hz, d_acq_sample_stamp,
                   d_enable_tracking, d_pull_in, d_sample_counter, d_current_prn_length_samples,
                   d_rem_code_phase_samples, d_rem_carr_phase_rad, d_carrier_doppler_hz,
                   d_code_freq_chips, d_cn0_estimation_counter, d_carrier_lock_test,
                   d_CN0_SNV_dB_Hz, d_carrier_lock_fail_counter, d_acc_carrier_phase_rad,
                   d_acc_code_phase_secs, d_carrier_loop_filter, d_code_loop_filter, d_channel,
                   d_ca_code, d_correlator_outs, d_local_code_shift_chips, fault>>
    /\ UNCHANGED <<out, work_return, consumed, nitems_read, correlated, events, lock_fail_peak,
                   K_blk_last, prompt_stored, lock_evaluated>>
    /\ UNCHANGED hist_vars
    /\ UNCHANGED alloc_vars
    /\ UNCHANGED twin_vars

\* a buffer start_tracking writes or hands to the code generator and the correlator
\* (lines 215-226) is a null pointer
buffer_is_null ==
    d_ca_code = "null" \/ d_correlator_outs = "null" \/ d_local_code_shift_chips = "null"

\* the assignments of start_tracking (lines 206-246), h being the hint it reads
start_tracking_body(h) ==
    /\ d_acq_code_phase_samples' = h.Acq_delay_samples
    /\ d_acq_carrier_doppler_hz' = h.Acq_doppler_hz
    /\ d_acq_sample_stamp' = h.Acq_samplestamp_samples
    /\ d_carrier_loop_filter' = "initialized"
    /\ d_code_loop_filter' = "initialized"
    /\ d_carrier_lock_fail_counter' = 0
    /\ d_rem_code_phase_samples' = 0
    /\ d_rem_carr_phase_rad' = 0
    /\ d_acc_carrier_phase_rad' = 0
    /\ d_acc_code_phase_secs' = 0
    /\ d_carrier_doppler_hz' = h.Acq_doppler_hz
    /\ d_current_prn_length_samples' = d_vector_length
    /\ d_pull_in' = TRUE
    /\ d_enable_tracking' = TRUE
    /\ last_call' = "start_tracking"
    /\ UNCHANGED <<d_acquisition_gnss_synchro, d_sample_counter, d_code_freq_chips,
                   d_cn0_estimation_counter, d_carrier_lock_test, d_CN0_SNV_dB_Hz, d_channel,
                   d_ca_code, d_correlator_outs, d_local_code_shift_chips, fault>>
    /\ UNCHANGED <<out, work_return, consumed, nitems_read, correlated, events, lock_fail_peak,
                   K_blk_last, prompt_stored, lock_evaluated>>
    /\ all_failed' = TRUE
    /\ periods_since_start' = 0
    /\ lost_since_start' = FALSE
    /\ UNCHANGED alloc_vars

\* start_tracking with no hint object: the first statement (line 206) reads through the
\* null pointer set by the constructor (line 194).  The read is undefined; this is the
\* outcome in which it traps.
start_tracking_null ==
    /\ fault = "none"
    /\ d_acquisition_gnss_synchro = "null"
    /\ fault' = "null_dereference"
    /\ null_access' = TRUE
    /\ last_call' = "start_tracking"
    /\ UNCHANGED <<d_acquisition_gnss_synchro, d_acq_code_phase_samples, d_acq_carrier_doppler_hz,
                   d_acq_sample_stamp, d_enable_tracking, d_pull_in, d_sample_counter,
                   d_current_prn_length_samples, d_rem_code_phase_samples, d_rem_carr_phase_rad,
                   d_carrier_doppler_hz, d_code_freq_chips, d_cn0_estimation_counter,
                   d_carrier_lock_test, d_CN0_SNV_dB_Hz, d_carrier_lock_fail_counter,
                   d_acc_carrier_phase_rad, d_acc_code_phase_secs, d_carrier_loop_filter,
                   d_code_loop_filter, d_channel, d_ca_code, d_correlator_outs,
                   d_local_code_shift_chips>>
    /\ UNCHANGED <<out, work_return, consumed, nitems_read, correlated, events, lock_fail_peak,
                   K_blk_last, prompt_stored, lock_evaluated>>
    /\ UNCHANGED <<all_failed, periods_since_start, lost_since_start>>
    /\ UNCHANGED alloc_vars
    /\ UNCHANGED twin_vars

\* the other outcome of the same read: it does not trap, start_tracking runs to its end
\* with whatever the reads through the null pointer gave (h)
start_tracking_null_read(h) ==
    /\ fault = "none"
    /\ d_acquisition_gnss_synchro = "null"
    /\ null_access' = TRUE
    /\ start_tracking_body(h)
    /\ UNCHANGED twin_vars

\* start_tracking; h is the content of *d_acquisition_gnss_synchro at the time of the call.
\* With a null buffer the writes of lines 215-226 are undefined; here they do not trap.
start_tracking(h) ==
    /\ fault = "none"
    /\ d_acquisition_gnss_synchro = "set"
    /\ null_access' = (null_access \/ buffer_is_null)
    /\ start_tracking_body(h)
    /\ UNCHANGED twin_vars

\* start_tracking of the second controller (lines 206-246): what it sets of the fields
\* kept in fresh
fresh_start_tracking(h) ==
    [fresh EXCEPT !.activated = TRUE,
                  !.d_acq_carrier_doppler_hz = h.Acq_doppler_hz,
                  !.d_carrier_lock_fail_counter = 0,
                  !.d_pull_in = TRUE,
                  !.d_enable_tracking = TRUE]

\* start_tracking called on both controllers with the same hint: the first with the
\* history it has, the second fresh from its constructor
start_tracking_together(h) ==
    /\ fault = "none"
    /\ d_acquisition_gnss_synchro = "set"
    /\ ~fresh.activated
    /\ null_access' = (null_access \/ buffer_is_null)
    /\ start_tracking_body(h)
    /\ fresh' = fresh_start_tracking(h)

\* start_tracking with a null buffer, the write through it trapping (line 215 or 225)
start_tracking_null_buffer(h) ==
    /\ fault = "none"
    /\ d_acquisition_gnss_synchro = "set"
    /\ buffer_is_null
    /\ d_acq_code_phase_samples' = h.Acq_delay_samples
    /\ d_acq_carrier_doppler_hz' = h.Acq_doppler_hz
    /\ d_acq_sample_stamp' = h.Acq_samplestamp_samples
    /\ d_carrier_loop_filter' = "initialized"
    /\ d_code_loop_filter' = "initialized"
    /\ fault' = "null_dereference"
    /\ null_access' = TRUE
    /\ last_call' = "start_tracking"
    /\ UNCHANGED <<d_acquisition_gnss_synchro, d_enable_tracking, d_pull_in, d_sample_counter,
                   d_current_prn_length_samples, d_rem_code_phase_samples, d_rem_carr_phase_rad,
                   d_carrier_doppler_hz, d_code_freq_chips, d_cn0_estimation_counter,
                   d_carrier_lock_test, d_CN0_SNV_dB_Hz, d_carrier_lock_fail_counter,
                   d_acc_carrier_phase_rad, d_acc_code_phase_secs, d_channel, d_ca_code,
                   d_correlator_outs, d_local_code_shift_chips>>
    /\ UNCHANGED <<out, work_return, consumed, nitems_read, correlated, events, lock_fail_peak,
                   K_blk_last, prompt_stored, lock_evaluated>>
    /\ UNCHANGED <<all_failed, periods_since_start, lost_since_start>>
    /\ UNCHANGED alloc_vars
    /\ UNCHANGED twin_vars

\* set_channel (the dump file is not part of the model)
set_channel(channel) ==
    /\ fault = "none"
    /\ d_channel' = channel
    /\ last_call' = "set_channel"
    /\ UNCHANGED <<d_acquisition_gnss_synchro, d_acq_code_phase_samples, d_acq_carrier_doppler_hz,
                   d_acq_sample_stamp, d_enable_tracking, d_pull_in, d_sample_counter,
                   d_current_prn_length_samples, d_rem_code_phase_samples, d_rem_carr_phase_rad,
                   d_carrier_doppler_hz, d_code_freq_chips, d_cn0_estimation_counter,
                   d_carrier_lock_test, d_CN0_SNV_dB_Hz, d_carrier_lock_fail_counter,
                   d_acc_carrier_phase_rad, d_acc_code_phase_secs, d_carrier_loop_filter,
                   d_code_loop_filter, d_ca_code, d_correlator_outs, d_local_code_shift_chips,
                   fault>>
    /\ UNCHANGED <<out, work_return, consumed, nitems_read, correlated, events, lock_fail_peak,
                   K_blk_last, prompt_stored, lock_evaluated>>
    /\ UNCHANGED hist_vars
    /\ UNCHANGED alloc_vars
    /\ UNCHANGED twin_vars

\* ------------------------------------------------------------ forecast
\* ninput_items_required[0] = d_vector_length * 2 (line 88): the samples the scheduler
\* makes available before it calls general_work
ninput_items_required == d_vector_length * 2

\* ------------------------------------------------------------ general_work: pull-in
\* int acq_to_trk_delay_samples = d_sample_counter - d_acq_sample_stamp
acq_to_trk_delay_samples == to_int(WrapCounter(d_sample_counter - d_acq_sample_stamp))

\* variant: the remainder itself instead of the distance to the next period
acq_trk_shif_correction_samples_unshifted ==
    fmod(acq_to_trk_delay_samples, d_current_prn_length_samples)

\* in samples
acq_trk_shif_correction_samples ==
    d_current_prn_length_samples - fmod(acq_to_trk_delay_samples, d_current_prn_length_samples)

\* int samples_offset = round(d_acq_code_phase_samples + acq_trk_shif_correction_samples)
samples_offset == round(d_acq_code_phase_samples + acq_trk_shif_correction_samples * Scale)

\* ------------------------------------------------------------ general_work: tracking
\* d_carrier_doppler_hz = d_acq_carrier_doppler_hz + carr_error_filt_hz
new_carrier_doppler_hz(carr_error_filt_hz) == d_acq_carrier_doppler_hz + carr_error_filt_hz

\* d_code_freq_chips = CHIP_RATE + (doppler * CHIP_RATE) / FREQ, in 1/FREQ chips per period
new_code_freq_chips(doppler) ==
    Galileo_E1_CODE_CHIP_RATE_HZ * Galileo_E1_FREQ_HZ + doppler * Galileo_E1_CODE_CHIP_RATE_HZ

\* GALILEO_TWO_PI * d_carrier_doppler_hz * d_current_prn_length_samples / d_fs_in
carr_phase_advance(doppler) ==
    (GALILEO_TWO_PI * doppler * d_current_prn_length_samples) \div d_fs_in

\* variant: the accumulated carrier phase left as it is
new_acc_carrier_phase_rad_held(doppler) == d_acc_carrier_phase_rad

\* d_acc_carrier_phase_rad after line 355
new_acc_carrier_phase_rad(doppler) == d_acc_carrier_phase_rad - carr_phase_advance(doppler)

\* variant: the phase accumulated without the fmod of line 358
new_rem_carr_phase_rad_unwrapped(doppler) == d_rem_carr_phase_rad + carr_phase_advance(doppler)

\* d_rem_carr_phase_rad after lines 357-358
new_rem_carr_phase_rad(doppler) ==
    fmod(d_rem_carr_phase_rad + carr_phase_advance(doppler), GALILEO_TWO_PI)

\* code_error_filt_secs * d_fs_in, in 1/Scale samples (code_error_filt_chips in 1/Scale chips per period)
code_error_filt_samples(code_error_filt_chips) ==
    (Galileo_E1_CODE_PERIOD * code_error_filt_chips * d_fs_in) \div Galileo_E1_CODE_CHIP_RATE_HZ

\* code_error_filt_secs (line 367), in units of 1/(Scale * d_fs_in) period: in these units
\* code_error_filt_secs * d_fs_in has the same value
code_error_filt_secs(code_error_filt_chips) == code_error_filt_samples(code_error_filt_chips)

\* T_prn_samples = (1 / d_code_freq_chips) * CODE_LENGTH_CHIPS * d_fs_in, in 1/Scale samples
T_prn_samples(code_freq) ==
    (Galileo_E1_B_CODE_LENGTH_CHIPS * d_fs_in * Scale * Galileo_E1_FREQ_HZ) \div code_freq

\* K_blk_samples, in 1/Scale samples
K_blk_samples(code_freq, code_error_filt_chips) ==
    T_prn_samples(code_freq) + d_rem_code_phase_samples + code_error_filt_samples(code_error_filt_chips)

\* d_current_prn_length_samples = round(K_blk_samples)
new_prn_length_samples(K) == round(K)

\* variant: the remainder taken against the nominal block length
new_rem_code_phase_samples_nominal(K) == K - d_vector_length * Scale

\* d_rem_code_phase_samples = K_blk_samples - d_current_prn_length_samples
new_rem_code_phase_samples(K) == K - new_prn_length_samples(K) * Scale

\* the test of line 401
lock_test_fails(carrier_lock_test, cn0) ==
    carrier_lock_test < CARRIER_LOCK_THRESHOLD \/ cn0 < MINIMUM_VALID_CN0

\* variant: the decrement of line 407 without its guard
counted_lock_fail_unguarded(carrier_lock_test, cn0) ==
    IF lock_test_fails(carrier_lock_test, cn0)
    THEN d_carrier_lock_fail_counter + 1
    ELSE d_carrier_lock_fail_counter - 1

\* d_carrier_lock_fail_counter after lines 401-408
counted_lock_fail(carrier_lock_test, cn0) ==
    IF lock_test_fails(carrier_lock_test, cn0)
    THEN d_carrier_lock_fail_counter + 1
    ELSE IF d_carrier_lock_fail_counter > 0 THEN d_carrier_lock_fail_counter - 1
         ELSE d_carrier_lock_fail_counter

\* variant: loss of lock declared on reaching the maximum
lock_is_lost_at_maximum(counter) == counter >= MAXIMUM_LOCK_FAIL_COUNTER

\* the test of line 409
lock_is_lost(counter) == counter > MAXIMUM_LOCK_FAIL_COUNTER

\* variant: one more Prompt stored before each evaluation
window_filling_inclusive == d_cn0_estimation_counter <= CN0_ESTIMATION_SAMPLES

\* the window is still filling (line 384)
window_filling == d_cn0_estimation_counter < CN0_ESTIMATION_SAMPLES

\* variant: tracking left enabled when the loss of lock is declared
d_enable_tracking_kept == d_enable_tracking

\* d_enable_tracking = false when the loss of lock is declared (line 415)
d_enable_tracking_after_loss == FALSE

\* variant: the window index left where it is by an evaluation
window_index_kept == d_cn0_estimation_counter

\* d_cn0_estimation_counter = 0 of the evaluation branch (line 392)
window_index_after_evaluation == 0

\* a Gnss_Synchro written to out[0]; period names the branch that wrote it
Record(counter, period) == [Tracking_sample_counter |-> counter, fs |-> d_fs_in, period |-> period]

\* variant: the pull-in branch returning without writing its record
pull_in_output_missing == <<>>

\* current_synchro_data.Tracking_sample_counter of the pull-in record (line 322)
pull_in_record_counter == WrapCounter(d_sample_counter + samples_offset)

\* *out[0] = current_synchro_data of the pull-in branch (line 324)
pull_in_output == <<Record(pull_in_record_counter, "pull_in")>>

\* variant: the record stamped with the end of the block instead of its start
tracking_record_counter_block_end == d_sample_counter + d_current_prn_length_samples

\* current_synchro_data.Tracking_sample_counter of a tracking record (line 424)
tracking_record_counter == d_sample_counter

\* variant: the idle record stamped with the end of the block
idle_record_counter_block_end == d_sample_counter + d_current_prn_length_samples

\* current_synchro_data.Tracking_sample_counter of an idle record (line 441)
idle_record_counter == d_sample_counter

\* variant: the pull-in branch leaving d_pull_in as it is
d_pull_in_kept == d_pull_in

\* d_pull_in after the alignment (line 326)
d_pull_in_after_alignment == FALSE

\* variant: the message carrying the channel number
loss_of_lock_message_channel == d_channel

\* pmt::from_long(3), the message published on "events" (line 413)
loss_of_lock_message == 3

\* this call of general_work goes through a null pointer: the hint (line 310) when
\* tracking is enabled, d_correlator_outs when the correlator runs or the idle branch
\* clears *d_Early, *d_Prompt and *d_Late (lines 437-439)
general_work_null_access ==
    \/ d_enable_tracking /\ d_acquisition_gnss_synchro = "null"
    \/ ~(d_enable_tracking /\ d_pull_in) /\ d_correlator_outs = "null"
    \/ d_enable_tracking /\ ~d_pull_in /\ buffer_is_null

\* return 1 of the pull-in branch (line 328)
pull_in_return == 1

\* return 1 at the end of general_work (line 521)
general_work_return == 1

\* general_work of the second controller, given the same results of the library code
\* as the first: lines 311-329 (pull-in), lines 351-353 and 384-417 (tracking) and
\* lines 435-442 (idle), for the fields kept in fresh
fresh_general_work(in) ==
    IF ~fresh.d_enable_tracking
    THEN [fresh EXCEPT !.events = <<>>]
    ELSE IF fresh.d_pull_in
    THEN [fresh EXCEPT !.d_pull_in = FALSE, !.events = <<>>]
    ELSE LET doppler == fresh.d_acq_carrier_doppler_hz + in.carr_error_filt_hz
             filling == fresh.d_cn0_estimation_counter < CN0_ESTIMATION_SAMPLES
             counter == fresh.d_carrier_lock_fail_counter
             counted == IF lock_test_fails(in.carrier_lock_test, in.CN0_SNV_dB_Hz) THEN counter + 1
                        ELSE IF counter > 0 THEN counter - 1 ELSE counter
             lost == (~filling) /\ lock_is_lost(counted)
         IN  [fresh EXCEPT
                 !.d_code_freq_chips = new_code_freq_chips(doppler),
                 !.d_cn0_estimation_counter = IF filling THEN @ + 1 ELSE 0,
                 !.d_CN0_SNV_dB_Hz = IF filling THEN @ ELSE in.CN0_SNV_dB_Hz,
                 !.d_carrier_lock_test = IF filling THEN @ ELSE in.carrier_lock_test,
                 !.d_carrier_lock_fail_counter = IF filling THEN @ ELSE IF lost THEN 0 ELSE counted,
                 !.d_enable_tracking = IF lost THEN FALSE ELSE @,
                 !.events = IF lost THEN <<loss_of_lock_message>> ELSE <<>>]

\* lines 311-329
pull_in_period ==
    /\ out' = pull_in_output
    /\ d_sample_counter' = WrapCounter(d_sample_counter + samples_offset)
    /\ d_pull_in' = d_pull_in_after_alignment
    /\ consumed' = samples_offset
    /\ nitems_read' = WrapCounter(nitems_read + samples_offset)
    /\ work_return' = pull_in_return
    /\ correlated' = 0
    /\ events' = <<>>
    /\ lock_fail_peak' = d_carrier_lock_fail_counter
    /\ last_call' = "pull_in"
    /\ K_blk_last' = 0
    /\ prompt_stored' = FALSE
    /\ lock_evaluated' = FALSE
    /\ UNCHANGED <<d_acquisition_gnss_synchro, d_acq_code_phase_samples, d_acq_carrier_doppler_hz,
                   d_acq_sample_stamp, d_enable_tracking, d_current_prn_length_samples,
                   d_rem_code_phase_samples, d_rem_carr_phase_rad, d_carrier_doppler_hz,
                   d_code_freq_chips, d_cn0_estimation_counter, d_carrier_lock_test,
                   d_CN0_SNV_dB_Hz, d_carrier_lock_fail_counter, d_acc_carrier_phase_rad,
                   d_acc_code_phase_secs, d_carrier_loop_filter, d_code_loop_filter, d_channel,
                   d_ca_code, d_correlator_outs, d_local_code_shift_chips, fault>>
    /\ UNCHANGED <<all_failed, lost_since_start>>

\* lines 331-432 and 443-521
tracking_period(in) ==
    LET doppler == new_carrier_doppler_hz(in.carr_error_filt_hz)
        code_freq == new_code_freq_chips(doppler)
        K == K_blk_samples(code_freq, in.code_error_filt_chips)
        length == new_prn_length_samples(K)
        counted == counted_lock_fail(in.carrier_lock_test, in.CN0_SNV_dB_Hz)
        lost == (~window_filling) /\ lock_is_lost(counted)
    IN  /\ correlated' = d_correlation_length_samples
        /\ d_carrier_doppler_hz' = doppler
        /\ d_code_freq_chips' = code_freq
        /\ d_carrier_loop_filter' = "running"
        /\ d_code_loop_filter' = "running"
        /\ d_acc_carrier_phase_rad' = new_acc_carrier_phase_rad(doppler)
        /\ d_rem_carr_phase_rad' = new_rem_carr_phase_rad(doppler)
        /\ d_acc_code_phase_secs' = d_acc_code_phase_secs + code_error_filt_secs(in.code_error_filt_chips)
        /\ d_current_prn_length_samples' = length
        /\ d_rem_code_phase_samples' = new_rem_code_phase_samples(K)
        /\ IF window_filling
           THEN /\ d_cn0_estimation_counter' = d_cn0_estimation_counter + 1
                /\ lock_fail_peak' = d_carrier_lock_fail_counter
                /\ UNCHANGED <<d_CN0_SNV_dB_Hz, d_carrier_lock_test, d_carrier_lock_fail_counter,
                               d_enable_tracking, all_failed>>
           ELSE /\ d_cn0_estimation_counter' = window_index_after_evaluation
                /\ d_CN0_SNV_dB_Hz' = in.CN0_SNV_dB_Hz
                /\ d_carrier_lock_test' = in.carrier_lock_test
                /\ lock_fail_peak' = counted
                /\ d_carrier_lock_fail_counter' = IF lost THEN 0 ELSE counted
                /\ d_enable_tracking' = IF lost THEN d_enable_tracking_after_loss ELSE d_enable_tracking
                /\ all_failed' = (all_failed /\ (in.carrier_lock_test < CARRIER_LOCK_THRESHOLD
                                                  \/ in.CN0_SNV_dB_Hz < MINIMUM_VALID_CN0))
        /\ events' = IF lost THEN <<loss_of_lock_message>> ELSE <<>>
        /\ lost_since_start' = (lost_since_start \/ lost)
        /\ out' = <<Record(tracking_record_counter, "tracking")>>
        /\ K_blk_last' = K
        /\ prompt_stored' = window_filling
        /\ lock_evaluated' = ~window_filling
        /\ consumed' = length
        /\ nitems_read' = WrapCounter(nitems_read + length)
        /\ d_sample_counter' = WrapCounter(d_sample_counter + length)
        /\ work_return' = general_work_return
        /\ last_call' = "tracking"
        /\ UNCHANGED <<d_acquisition_gnss_synchro, d_acq_code_phase_samples,
                       d_acq_carrier_doppler_hz, d_acq_sample_stamp, d_pull_in, d_channel,
                       d_ca_code, d_correlator_outs, d_local_code_shift_chips, fault>>

\* lines 435-450 and 518-521
idle_period ==
    /\ out' = <<Record(idle_record_counter, "idle")>>
    /\ consumed' = d_current_prn_length_samples
    /\ nitems_read' = WrapCounter(nitems_read + d_current_prn_length_samples)
    /\ d_sample_counter' = WrapCounter(d_sample_counter + d_current_prn_length_samples)
    /\ work_return' = general_work_return
    /\ correlated' = 0
    /\ events' = <<>>
    /\ lock_fail_peak' = d_carrier_lock_fail_counter
    /\ last_call' = "idle"
    /\ K_blk_last' = 0
    /\ prompt_stored' = FALSE
    /\ lock_evaluated' = FALSE
    /\ UNCHANGED <<d_acquisition_gnss_synchro, d_acq_code_phase_samples, d_acq_carrier_doppler_hz,
                   d_acq_sample_stamp, d_enable_tracking, d_pull_in, d_current_prn_length_samples,
                   d_rem_code_phase_samples, d_rem_carr_phase_rad, d_carrier_doppler_hz,
                   d_code_freq_chips, d_cn0_estimation_counter, d_carrier_lock_test,
                   d_CN0_SNV_dB_Hz, d_carrier_lock_fail_counter, d_acc_carrier_phase_rad,
                   d_acc_code_phase_secs, d_carrier_loop_filter, d_code_loop_filter, d_channel,
                   d_ca_code, d_correlator_outs, d_local_code_shift_chips, fault>>
    /\ UNCHANGED <<all_failed, lost_since_start>>

\* one call of general_work; in holds the results the library code returns in this period.
\* An access through a null pointer is undefined; here it does not trap.
general_work(in, horizon) ==
    /\ fault = "none"
    /\ d_sample_counter <= horizon
    /\ IF d_enable_tracking
       THEN IF d_pull_in THEN pull_in_period ELSE tracking_period(in)
       ELSE idle_period
    /\ periods_since_start' = IF all_failed' THEN periods_since_start + 1 ELSE 0
    /\ null_access' = (null_access \/ general_work_null_access)
    /\ UNCHANGED alloc_vars
    /\ fresh' = IF fresh.activated THEN fresh_general_work(in) ELSE fresh

\* a call of general_work whose access through a null pointer traps
general_work_null(horizon) ==
    /\ fault = "none"
    /\ d_sample_counter <= horizon
    /\ general_work_null_access
    /\ fault' = "null_dereference"
    /\ null_access' = TRUE
    /\ last_call' = "general_work"
    /\ UNCHANGED <<d_acquisition_gnss_synchro, d_acq_code_phase_samples, d_acq_carrier_doppler_hz,
                   d_acq_sample_stamp, d_enable_tracking, d_pull_in, d_sample_counter,
                   d_current_prn_length_samples, d_rem_code_phase_samples, d_rem_carr_phase_rad,
                   d_carrier_doppler_hz, d_code_freq_chips, d_cn0_estimation_counter,
                   d_carrier_lock_test, d_CN0_SNV_dB_Hz, d_carrier_lock_fail_counter,
                   d_acc_carrier_phase_rad, d_acc_code_phase_secs, d_carrier_loop_filter,
                   d_code_loop_filter, d_channel, d_ca_code, d_correlator_outs,
                   d_local_code_shift_chips>>
    /\ UNCHANGED <<out, work_return, consumed, nitems_read, correlated, events, lock_fail_peak,
                   K_blk_last, prompt_stored, lock_evaluated>>
    /\ UNCHANGED <<all_failed, periods_since_start, lost_since_start>>
    /\ UNCHANGED alloc_vars
    /\ UNCHANGED twin_vars

\* ------------------------------------------------------------ volk_gnsssdr_malloc.c
\* sizeof(struct block_info) = sizeof(void *), of a build with 4-byte pointers
sizeof_block_info == 4

Builds == {"aligned_alloc", "posix_memalign", "fallback"}

\* x & ~(alignment - 1) for a power of two alignment
AlignDown(x, alignment) == x - (x % alignment)

\* the bytes of a block
BlockBytes(b) == b.real .. (b.real + b.len - 1)

\* the underlying allocator can place a block of len bytes at real: inside the memory and
\* apart from every live block
CanPlace(real, len) ==
    /\ real >= HeapBase
    /\ real + len - 1 <= MemSize
    /\ \A b \in heap : BlockBytes(b) \cap (real .. (real + len - 1)) = {}
    /\ Cardinality(heap) < MaxBlocks

\* what the underlying allocator answers: NULL (0), or real, an address where it can
\* place len bytes aligned as it promises
Answers(real, len, alignment) ==
    real = 0 \/ (CanPlace(real, len) /\ real % alignment = 0)

\* the state after a call that returned ptr, having obtained the block at real (0: none);
\* available tells whether the underlying allocator had memory to give
malloc_returns(size, alignment, available, real, len, ptr, wrote) ==
    /\ heap' = IF real = 0 THEN heap ELSE heap \cup {[real |-> real, len |-> len]}
    /\ user_ptrs' = IF ptr = 0 THEN user_ptrs ELSE user_ptrs \cup {ptr}
    /\ malloc_call' = [size |-> size, alignment |-> alignment, available |-> available,
                       ptr |-> ptr, wrote |-> wrote]

\* lines 47-59.  aligned_alloc(alignment, size) is given the size as it comes: C11
\* requires it to be a multiple of the alignment, and a library that enforces this
\* (strict) returns NULL otherwise.  real is what the library has to give.
volk_gnsssdr_malloc_aligned_alloc(size, alignment, real, strict) ==
    LET ptr == IF strict /\ size % alignment # 0 THEN 0 ELSE real
    IN  /\ Answers(real, size, alignment)
        /\ malloc_returns(size, alignment, real # 0, ptr, size, ptr, FALSE)
        /\ UNCHANGED <<block_info, alloc_fault>>

\* lines 76-101.  posix_memalign returns EINVAL unless the alignment is a power of two
\* and a multiple of sizeof(void *); only the alignment 1 is diverted to malloc.
volk_gnsssdr_malloc_posix_memalign(size, alignment, real) ==
    LET err == IF alignment % sizeof_block_info # 0 THEN "EINVAL"
               ELSE IF real = 0 THEN "ENOMEM" ELSE "0"
        ptr == IF alignment = 1 THEN real
               ELSE IF err = "0" THEN real ELSE 0
    IN  /\ Answers(real, size, alignment)
        /\ malloc_returns(size, alignment, real # 0, ptr, size, ptr, FALSE)
        /\ UNCHANGED <<block_info, alloc_fault>>

\* the alignment the fallback works with (lines 123-124)
raised_alignment(alignment) ==
    IF alignment < sizeof_block_info THEN sizeof_block_info ELSE alignment

\* size + (2 * alignment - 1), the size_t argument of malloc (line 127)
malloc_size(size, alignment) == WrapSize(size + (2 * alignment - 1))

\* user (line 130)
user_of(real, alignment) == AlignDown(real + sizeof_block_info + alignment - 1, alignment)

\* info (lines 131 and 146)
info_of(user) == user - sizeof_block_info

\* lines 117-138.  The result of malloc is not tested: with real = NULL the store of
\* line 134 goes to the address info computed from 0, which is undefined; it traps or
\* the store is made and user is returned.
volk_gnsssdr_malloc_fallback(size, alignment, real, trap) ==
    LET a == raised_alignment(alignment)
        len == malloc_size(size, a)
        user == user_of(real, a)
        info == info_of(user)
    IN  /\ Answers(real, len, 1)
        /\ IF real = 0 /\ trap
           THEN /\ alloc_fault' = "null_dereference"
                /\ malloc_call' = [size |-> size, alignment |-> alignment, available |-> FALSE,
                                   ptr |-> 0, wrote |-> FALSE]
                /\ UNCHANGED <<heap, user_ptrs, block_info>>
           ELSE /\ block_info' = [block_info EXCEPT ![info] = real]
                /\ malloc_returns(size, alignment, real # 0, real, len, user, real = 0)
                /\ UNCHANGED alloc_fault

\* volk_gnsssdr_malloc(size, alignment) of the build in use; real is the answer of the
\* underlying allocator
volk_gnsssdr_malloc(size, alignment, real, flag) ==
    /\ alloc_fault = "none"
    /\ CASE alloc_build = "aligned_alloc" -> volk_gnsssdr_malloc_aligned_alloc(size, alignment, real, flag)
         [] alloc_build = "posix_memalign" -> (~flag) /\ volk_gnsssdr_malloc_posix_memalign(size, alignment, real)
         [] alloc_build = "fallback" -> volk_gnsssdr_malloc_fallback(size, alignment, real, flag)
    /\ UNCHANGED <<alloc_build, prog_vars, io_vars, hist_vars, twin_vars>>

\* free(real) of the underlying allocator; free(NULL) does nothing
free(real) == heap' = {b \in heap : b.real # real}

\* volk_gnsssdr_free(ptr) of the build in use (lines 62-69, 104-107, 141-150), for a
\* pointer volk_gnsssdr_malloc returned.  The fallback reads the real pointer from the
\* header before ptr; the model forgets the header of a freed block.
volk_gnsssdr_free(ptr) ==
    /\ alloc_fault = "none"
    /\ ptr \in user_ptrs
    /\ IF alloc_build = "fallback"
       THEN /\ free(block_info[info_of(ptr)])
            /\ block_info' = [block_info EXCEPT ![info_of(ptr)] = 0]
       ELSE /\ free(ptr)
            /\ UNCHANGED block_info
    /\ user_ptrs' = user_ptrs \ {ptr}
    /\ UNCHANGED <<alloc_build, malloc_call, alloc_fault, prog_vars, io_vars, hist_vars, twin_vars>>

\* ------------------------------------------------------------ environments
\* Acquisition hints.  Delays in 1/Scale samples: every delay of [0, vector_length), a
\* slightly negative delay and one of more than two periods; a stamp before the first
\* sample processed and a stamp after it.
AcqDelays == (0 .. (d_vector_length * Scale - 1)) \cup {-1, -(2 * d_vector_length + 1) * Scale}
AcqStamps == {0, d_vector_length + 2}
Hints == [Acq_delay_samples : AcqDelays, Acq_doppler_hz : {0}, Acq_samplestamp_samples : AcqStamps]

\* results of the loop filters and lock detectors in one period
LoopInputs == [carr_error_filt_hz : {0}, code_error_filt_chips : {-1, 0, 1},
               carrier_lock_test : {100}, CN0_SNV_dB_Hz : {45}]

Next ==
    \/ set_gnss_synchro
    \/ start_tracking_null
    \/ \E h \in Hints : start_tracking(h)
    \/ \E in \in LoopInputs : general_work(in, MaxSampleCounter)

Spec == Init /\ [][Next]_vars

\* carrier and code loops moving: Doppler of either sign, code error of either sign
NcoHints == [Acq_delay_samples : {0}, Acq_doppler_hz : {-3, 3}, Acq_samplestamp_samples : {0}]
NcoInputs == [carr_error_filt_hz : {-3, 0, 3}, code_error_filt_chips : {-1, 0, 1},
              carrier_lock_test : {100}, CN0_SNV_dB_Hz : {45}]

NextNco ==
    \/ set_gnss_synchro
    \/ start_tracking_null
    \/ \E h \in NcoHints : start_tracking(h)
    \/ \E in \in NcoInputs : general_work(in, 2 * MaxSampleCounter)

SpecNco == Init /\ [][NextNco]_vars

\* weak or strong signal with nominal loops: only the lock detectors vary
LockHints == [Acq_delay_samples : {0}, Acq_doppler_hz : {0}, Acq_samplestamp_samples : {0}]
LockInputs == {in \in [carr_error_filt_hz : {0}, code_error_filt_chips : {0},
                        carrier_lock_test : {84, 85}, CN0_SNV_dB_Hz : {24, 25}] :
                  in.carrier_lock_test = 85 \/ in.CN0_SNV_dB_Hz = 25}

NextLock ==
    \/ set_gnss_synchro
    \/ start_tracking_null
    \/ \E h \in LockHints : d_sample_counter <= MaxLockStart /\ start_tracking(h)
    \/ \E in \in LockInputs : general_work(in, MaxLockPeriods * d_vector_length)

SpecLock == Init /\ [][NextLock]_vars

\* silent discriminators: both loop filters return 0 in every period, the Doppler of the
\* hint has either sign or is 0, and the lock detectors (library code) report a failure
\* or a pass
ZeroHints == [Acq_delay_samples : {0}, Acq_doppler_hz : {-3, 0, 3}, Acq_samplestamp_samples : {0}]
ZeroInputs == {[carr_error_filt_hz |-> 0, code_error_filt_chips |-> 0,
                carrier_lock_test |-> 0, CN0_SNV_dB_Hz |-> 0],
               [carr_error_filt_hz |-> 0, code_error_filt_chips |-> 0,
                carrier_lock_test |-> 100, CN0_SNV_dB_Hz |-> 45]}

NextZero ==
    \/ set_gnss_synchro
    \/ start_tracking_null
    \/ \E h \in ZeroHints : d_sample_counter <= MaxLockStart /\ start_tracking(h)
    \/ \E in \in ZeroInputs : general_work(in, MaxZeroPeriods * d_vector_length)

SpecZero == Init /\ [][NextZero]_vars

\* a weak signal on a numbered channel: every lock evaluation fails, set_channel is
\* called before the samples flow
Channels == 0 .. MaxChannel
ChannelInputs == {in \in LockInputs : lock_test_fails(in.carrier_lock_test, in.CN0_SNV_dB_Hz)}

NextChannel ==
    \/ set_gnss_synchro
    \/ start_tracking_null
    \/ \E channel \in Channels : d_sample_counter = 0 /\ set_channel(channel)
    \/ \E h \in LockHints : d_sample_counter <= MaxLockStart /\ start_tracking(h)
    \/ \E in \in ChannelInputs : general_work(in, MaxLockPeriods * d_vector_length)

SpecChannel == Init /\ [][NextChannel]_vars

\* loss of lock and re-activation: the signal fades, the lock evaluations pass or fail
\* early in the stream and fail afterwards; start_tracking is called early in the stream
\* and again right after a period that declared the loss of lock
NextRelock ==
    \/ set_gnss_synchro
    \/ \E h \in LockHints :
          /\ d_sample_counter <= MaxLockStart \/ (last_call = "tracking" /\ ~d_enable_tracking)
          /\ start_tracking(h)
    \/ \E in \in LockInputs :
          /\ d_sample_counter <= MaxPassPeriods * d_vector_length \/ in \in ChannelInputs
          /\ general_work(in, MaxRelockPeriods * d_vector_length)

SpecRelock == Init /\ [][NextRelock]_vars

\* two controllers: the first is activated early in the stream and tracks, with silent
\* discriminators; then start_tracking is called on both with one hint, and both are
\* given the same results in every period
NextTwin ==
    \/ set_gnss_synchro
    \/ \E h \in ZeroHints : d_sample_counter <= MaxLockStart /\ ~fresh.activated /\ start_tracking(h)
    \/ \E h \in ZeroHints : start_tracking_together(h)
    \/ \E in \in ZeroInputs : general_work(in, MaxZeroPeriods * d_vector_length)

SpecTwin == Init /\ [][NextTwin]_vars

\* late activation: the block has been running idle for a while when start_tracking is
\* called, with a stamp from the beginning of the stream; the loops are nominal
IntHints == [Acq_delay_samples : {0, Scale + 1, (d_vector_length - 1) * Scale},
             Acq_doppler_hz : {0}, Acq_samplestamp_samples : {0, d_vector_length + 2}]
IntInputs == [carr_error_filt_hz : {0}, code_error_filt_chips : {0},
              carrier_lock_test : {100}, CN0_SNV_dB_Hz : {45}]

NextInt ==
    \/ set_gnss_synchro
    \/ \E h \in IntHints : (~d_enable_tracking) /\ start_tracking(h)
    \/ \E in \in IntInputs : general_work(in, MaxIntPeriods * d_vector_length)

SpecInt == Init /\ [][NextInt]_vars

\* construction with every outcome of the three allocations, and every outcome of an
\* access through a null pointer
InitCtor ==
    /\ \E ca \in AllocationResults, co \in AllocationResults, sh \in AllocationResults :
          galileo_e1_dll_pll_veml_tracking_cc(ca, co, sh)
    /\ allocator_at_rest("aligned_alloc")
    /\ fresh_constructed

NextCtor ==
    \/ set_gnss_synchro
    \/ start_tracking_null
    \/ \E h \in NcoHints : start_tracking_null_read(h)
    \/ \E h \in NcoHints : start_tracking(h)
    \/ \E h \in NcoHints : start_tracking_null_buffer(h)
    \/ \E in \in LoopInputs : general_work(in, MaxSampleCounter)
    \/ general_work_null(MaxSampleCounter)

SpecCtor == InitCtor /\ [][NextCtor]_vars

\* the allocator on its own, in each of its three builds; the sizes asked for are the
\* small ones and the largest a size_t holds
Sizes == (1 .. MaxSize) \cup {SIZE_MAX}
Alignments == {2^k : k \in 0 .. MaxAlignmentLog2}

InitAlloc ==
    /\ galileo_e1_dll_pll_veml_tracking_cc("allocated", "allocated", "allocated")
    /\ \E build \in Builds : allocator_at_rest(build)
    /\ fresh_constructed

NextAlloc ==
    \/ \E size \in Sizes, alignment \in Alignments, real \in {0} \cup (HeapBase .. MemSize), flag \in BOOLEAN :
          volk_gnsssdr_malloc(size, alignment, real, flag)
    \/ \E ptr \in user_ptrs : volk_gnsssdr_free(ptr)

SpecAlloc == InitAlloc /\ [][NextAlloc]_vars

\* ------------------------------------------------------------ properties
WorkCalls == {"pull_in", "tracking", "idle"}

\* the step is a call of general_work
WorkStep == last_call' \in WorkCalls

\* the step is the pull-in period of general_work
PullInStep == WorkStep /\ d_enable_tracking /\ d_pull_in

\* the step is a tracking period of general_work
TrackingStep == WorkStep /\ d_enable_tracking /\ ~d_pull_in

\* general_work calls from start_tracking to the loss of lock when every evaluation
\* fails and the window index is 0 at activation: the pull-in period, then
\* MAXIMUM_LOCK_FAIL_COUNTER + 1 evaluations, one every CN0_ESTIMATION_SAMPLES + 1 periods
LossOfLockPeriods == 1 + (MAXIMUM_LOCK_FAIL_COUNTER + 1) * (CN0_ESTIMATION_SAMPLES + 1)

\* C1 as stated: once tracking was enabled by start_tracking and every lock evaluation
\* since has failed, 50 processed periods after enablement a loss_of_lock event has been
\* published and enabled is false.
C1_LossWithin50Periods ==
    (all_failed /\ periods_since_start >= MAXIMUM_LOCK_FAIL_COUNTER)
        => (lost_since_start /\ ~d_enable_tracking)

\* C1 amended: under the same condition the loss_of_lock event has been published and
\* enabled is false after 1 + 51 * 21 = 1072 processed periods, it is never published
\* before 1072 - 20 periods, and enabled stays false once it was published.
C1_LossWithinEvaluationCadence ==
    /\ (all_failed /\ periods_since_start >= LossOfLockPeriods)
          => (lost_since_start /\ ~d_enable_tracking)
    /\ (all_failed /\ lost_since_start)
          => (~d_enable_tracking /\ periods_since_start >= LossOfLockPeriods - CN0_ESTIMATION_SAMPLES)

C1_Witness ==
    all_failed /\ lost_since_start /\ events = <<3>> /\ periods_since_start = LossOfLockPeriods

\* C2: in a general_work call the counter exceeds MAXIMUM_LOCK_FAIL_COUNTER exactly when
\* one loss_of_lock event is published; the counter is then 0 and enabled false at the
\* end of that call; and general_work clears enabled in no other call.
C2_LossOfLockEscalation ==
    [][WorkStep =>
          /\ (lock_fail_peak' > MAXIMUM_LOCK_FAIL_COUNTER) <=> (events' = <<3>>)
          /\ (lock_fail_peak' > MAXIMUM_LOCK_FAIL_COUNTER)
                => (d_carrier_lock_fail_counter' = 0 /\ ~d_enable_tracking')
          /\ (lock_fail_peak' <= MAXIMUM_LOCK_FAIL_COUNTER) => (events' = <<>>)
          /\ (d_enable_tracking /\ ~d_enable_tracking')
                => (lock_fail_peak' > MAXIMUM_LOCK_FAIL_COUNTER)]_vars

C2_Witness ==
    /\ last_call = "tracking"
    /\ lock_fail_peak = MAXIMUM_LOCK_FAIL_COUNTER + 1
    /\ events = <<3>>
    /\ d_carrier_lock_fail_counter = 0
    /\ ~d_enable_tracking

\* C3: the lock-fail counter, between calls and right after its update inside a call,
\* lies in [0, MAXIMUM_LOCK_FAIL_COUNTER + 1]; a passing evaluation at 0 leaves it at 0.
C3_LockFailCounterRange ==
    /\ d_carrier_lock_fail_counter \in 0 .. (MAXIMUM_LOCK_FAIL_COUNTER + 1)
    /\ lock_fail_peak \in 0 .. (MAXIMUM_LOCK_FAIL_COUNTER + 1)

\* the first evaluation after an activation at counter 0 has just passed
C3_Witness ==
    /\ last_call = "tracking"
    /\ d_cn0_estimation_counter = 0
    /\ d_carrier_lock_test >= CARRIER_LOCK_THRESHOLD
    /\ d_CN0_SNV_dB_Hz >= MINIMUM_VALID_CN0
    /\ d_sample_counter <= (CN0_ESTIMATION_SAMPLES + 2) * d_vector_length
    /\ d_carrier_lock_fail_counter = 0
    /\ lock_fail_peak = 0

\* C4 as stated: every general_work call leaves sample_counter no smaller, advances it by
\* the number of samples the call consumes (the block length in a tracking or idle
\* period), and keeps it equal to the number of samples consumed since construction.
C4_CounterAdvancesByConsumed ==
    [][WorkStep =>
          /\ d_sample_counter' >= d_sample_counter
          /\ d_sample_counter' = d_sample_counter + consumed'
          /\ consumed' >= 0
          /\ (~(d_enable_tracking /\ d_pull_in)) => (consumed' = d_current_prn_length_samples')
          /\ d_sample_counter' = nitems_read']_vars

C6_OneRecordPerCall ==
    (last_call \in WorkCalls) => (Len(out) = 1 /\ work_return = 1)

\* the period that declares the loss of lock has written its record
C6_Witness ==
    /\ last_call = "tracking"
    /\ ~d_enable_tracking
    /\ events = <<3>>
    /\ Len(out) = 1
    /\ out[1].period = "tracking"
    /\ work_return = 1

\* the acquisition delay rounded to whole samples (delay >= 0, in 1/Scale samples)
RoundedDelay(delay) == (2 * delay + Scale) \div (2 * Scale)

\* the smallest sample index >= counter congruent to stamp + delay modulo length
NearestBoundary(counter, stamp, delay, length) ==
    CHOOSE n \in counter .. (counter + length - 1) : (n - stamp - delay) % length = 0

\* the case of C7: the counter has passed the stamp and the delay lies in [0, length)
PullInCase ==
    /\ d_sample_counter >= d_acq_sample_stamp
    /\ d_acq_code_phase_samples >= 0
    /\ d_acq_code_phase_samples < d_current_prn_length_samples * Scale

\* C7 as stated: in that case the pull-in record carries the smallest sample index >=
\* sample_counter that is congruent to acq_sample_stamp + acq delay modulo the block length.
C7_NearestLaterBoundary ==
    [][(PullInStep /\ PullInCase) =>
          (out'[1].Tracking_sample_counter =
              NearestBoundary(d_sample_counter, d_acq_sample_stamp,
                              RoundedDelay(d_acq_code_phase_samples), d_current_prn_length_samples))]_vars

\* C7 amended: in that case the pull-in record carries
\* sample_counter + round(delay) + L - ((sample_counter - stamp) mod L): a boundary congruent
\* to stamp + round(delay) modulo L, after sample_counter and at most 2 L after it.  It is
\* the nearest such boundary when round(delay) < (sample_counter - stamp) mod L, and at
\* least one whole period after the nearest one otherwise.
C7_AlignedLaterBoundary ==
    [][(PullInStep /\ PullInCase) =>
          LET L == d_current_prn_length_samples
              delay == RoundedDelay(d_acq_code_phase_samples)
              r == (d_sample_counter - d_acq_sample_stamp) % L
              nearest == NearestBoundary(d_sample_counter, d_acq_sample_stamp, delay, L)
              counter == out'[1].Tracking_sample_counter
          IN  /\ counter = d_sample_counter + delay + L - r
              /\ (counter - d_acq_sample_stamp - delay) % L = 0
              /\ counter > d_sample_counter
              /\ counter <= d_sample_counter + 2 * L
              /\ (delay < r) => (counter = nearest)
              /\ (delay >= r) => (counter >= nearest + L)]_vars

\* a pull-in that skipped more than one period to a boundary
C7_Witness ==
    /\ last_call = "pull_in"
    /\ d_acq_code_phase_samples >= 0
    /\ d_acq_code_phase_samples < d_current_prn_length_samples * Scale
    /\ consumed > d_current_prn_length_samples
    /\ d_sample_counter - consumed >= d_acq_sample_stamp
    /\ out[1].Tracking_sample_counter = d_sample_counter

\* the remainder of the division truncated toward zero, as the claim's "mod" on the
\* signed difference
TruncatedRemainder(x, y) == IF x >= 0 THEN x % y ELSE -((-x) % y)

\* nearest integer of a value in 1/Scale units, halves away from zero
NearestInteger(x) == IF x >= 0 THEN (2 * x + Scale) \div (2 * Scale) ELSE -((Scale - 2 * x) \div (2 * Scale))

\* samples_offset as C8 gives it
PullInOffset ==
    NearestInteger(d_acq_code_phase_samples
                   + Scale * (d_current_prn_length_samples
                              - TruncatedRemainder(d_sample_counter - d_acq_sample_stamp,
                                                   d_current_prn_length_samples)))

C10_CodePhaseRemainder ==
    (last_call = "tracking") =>
        /\ Abs(d_rem_code_phase_samples) < Scale
        /\ d_rem_code_phase_samples = K_blk_last - d_current_prn_length_samples * Scale

\* a block length that differs from the nominal one, with a non-zero remainder
C10_Witness ==
    /\ last_call = "tracking"
    /\ d_rem_code_phase_samples # 0
    /\ d_current_prn_length_samples # d_vector_length

\* the nominal block length fs * code_period_s
NominalLength == d_fs_in * Galileo_E1_CODE_PERIOD

\* C11 as stated: in every state the block length is positive and differs from the
\* nominal length fs * code_period_s by at most one sample.
C11_BlockLengthNearNominal ==
    /\ d_current_prn_length_samples > 0
    /\ Abs(d_current_prn_length_samples - NominalLength) <= 1

\* every hint the environments give to start_tracking
AllHints == Hints \cup NcoHints \cup LockHints \cup ZeroHints

\* start_tracking has just returned, having read a hint that was supplied
Activated == last_call = "start_tracking" /\ fault = "none" /\ d_acquisition_gnss_synchro = "set"

\* C12 as stated: after start_tracking with a hint the hint is snapshotted, both loop
\* filters are reset, the four accumulators are zero, the lock-fail counter and the
\* prompt-window index are zero, carrier_doppler_hz is the acquisition Doppler, the block
\* length is vector_length, and enabled and pull_in are true.
C12_ActivationPostState ==
    Activated =>
        /\ [Acq_delay_samples |-> d_acq_code_phase_samples, Acq_doppler_hz |-> d_acq_carrier_doppler_hz,
            Acq_samplestamp_samples |-> d_acq_sample_stamp] \in AllHints
        /\ d_carrier_loop_filter = "initialized"
        /\ d_code_loop_filter = "initialized"
        /\ d_rem_code_phase_samples = 0
        /\ d_rem_carr_phase_rad = 0
        /\ d_acc_carrier_phase_rad = 0
        /\ d_acc_code_phase_secs = 0
        /\ d_carrier_lock_fail_counter = 0
        /\ d_cn0_estimation_counter = 0
        /\ d_carrier_doppler_hz = d_acq_carrier_doppler_hz
        /\ d_current_prn_length_samples = d_vector_length
        /\ d_enable_tracking
        /\ d_pull_in

\* the mode named by the two flags
Mode(enabled, pull_in) ==
    IF enabled THEN (IF pull_in THEN "PULL_IN" ELSE "LOCKED")
    ELSE (IF pull_in THEN "UNREACHABLE" ELSE "IDLE")

\* C13 as stated: the mode only moves IDLE -> PULL_IN by start_tracking, PULL_IN -> LOCKED
\* by the first general_work call after activation (which always makes that move) and
\* LOCKED -> IDLE; pull_in without enabled is never reached.
C13_ModeMoves ==
    [][LET from == Mode(d_enable_tracking, d_pull_in)
           to == Mode(d_enable_tracking', d_pull_in')
       IN  /\ to # "UNREACHABLE"
           /\ (WorkStep /\ from = "PULL_IN") => (to = "LOCKED")
           /\ (from # to) =>
                 \/ from = "IDLE" /\ to = "PULL_IN" /\ last_call' = "start_tracking"
                 \/ from = "PULL_IN" /\ to = "LOCKED" /\ WorkStep
                 \/ from = "LOCKED" /\ to = "IDLE"]_vars

\* C13 amended: start_tracking leads to PULL_IN from every mode (from LOCKED and PULL_IN as
\* well as from IDLE); a general_work call leads from PULL_IN to LOCKED, from LOCKED to
\* IDLE exactly when it publishes the loss of lock and to LOCKED otherwise, and from IDLE
\* to IDLE; no other operation changes the mode and pull_in without enabled is never
\* reached.
C13_ModeMovesWithReactivation ==
    [][LET from == Mode(d_enable_tracking, d_pull_in)
           to == Mode(d_enable_tracking', d_pull_in')
       IN  /\ to # "UNREACHABLE"
           /\ (last_call' = "start_tracking" /\ fault' = "none") => (to = "PULL_IN")
           /\ (WorkStep /\ from = "PULL_IN") => (to = "LOCKED")
           /\ (WorkStep /\ from = "LOCKED") =>
                 (IF events' = <<loss_of_lock_message>> THEN to = "IDLE" ELSE to = "LOCKED")
           /\ (WorkStep /\ from = "IDLE") => (to = "IDLE")
           /\ (~WorkStep /\ ~(last_call' = "start_tracking" /\ fault' = "none")) => (to = from)]_vars

\* tracking was re-activated after it had begun: start_tracking has led back to PULL_IN
C13_Witness ==
    /\ last_call = "start_tracking"
    /\ fault = "none"
    /\ d_enable_tracking
    /\ d_pull_in
    /\ d_cn0_estimation_counter > 0

\* the step is a general_work call made while tracking is not enabled
IdleStep == WorkStep /\ ~d_enable_tracking

\* C14 as stated: a period that begins with enabled cleared writes one record; once such
\* a record has been written after a loss of lock, further periods consume nothing and
\* leave sample_counter where it is, until start_tracking is called.
C14_StopsConsuming ==
    [][IdleStep =>
          /\ Len(out') = 1
          /\ (lost_since_start /\ last_call = "idle")
                => (consumed' = 0 /\ d_sample_counter' = d_sample_counter)]_vars

\* C14 amended: every period that begins with enabled cleared, the first one and each
\* later one alike, writes one record carrying the sample counter at the start of the
\* period, consumes current_prn_length_samples (> 0) input samples and advances
\* sample_counter by as many, runs no correlator, publishes nothing, leaves enabled
\* cleared and the tracking state unchanged.
C14_IdleKeepsConsuming ==
    [][IdleStep =>
          /\ out' = <<Record(d_sample_counter, "idle")>>
          /\ consumed' = d_current_prn_length_samples
          /\ consumed' > 0
          /\ d_sample_counter' = (d_sample_counter + d_current_prn_length_samples) % SampleCounterModulus
          /\ nitems_read' = (nitems_read + d_current_prn_length_samples) % SampleCounterModulus
          /\ correlated' = 0
          /\ events' = <<>>
          /\ work_return' = 1
          /\ ~d_enable_tracking'
          /\ UNCHANGED <<d_pull_in, d_current_prn_length_samples, d_rem_code_phase_samples,
                         d_rem_carr_phase_rad, d_acc_carrier_phase_rad, d_acc_code_phase_secs,
                         d_carrier_doppler_hz, d_code_freq_chips, d_cn0_estimation_counter,
                         d_carrier_lock_test, d_CN0_SNV_dB_Hz, d_carrier_lock_fail_counter,
                         d_carrier_loop_filter, d_code_loop_filter>>]_vars

\* the second period after the one that declared the loss of lock has consumed a block
C14_Witness ==
    /\ last_call = "idle"
    /\ all_failed
    /\ lost_since_start
    /\ ~d_enable_tracking
    /\ periods_since_start = LossOfLockPeriods + 2
    /\ consumed = d_current_prn_length_samples
    /\ out[1].Tracking_sample_counter = d_sample_counter - consumed

\* the step is a tracking period in which both loop filters returned 0: the Doppler is
\* the acquisition Doppler and nothing was added to the accumulated code phase
ZeroStep ==
    /\ TrackingStep
    /\ d_carrier_doppler_hz' = d_acq_carrier_doppler_hz
    /\ d_acc_code_phase_secs' = d_acc_code_phase_secs

\* the lock indicators stored by the step report a failure
StoredLockFailure ==
    d_carrier_lock_test' < CARRIER_LOCK_THRESHOLD \/ d_CN0_SNV_dB_Hz' < MINIMUM_VALID_CN0

C16_AlignedAllocatorLaw ==
    /\ (malloc_call.available /\ alloc_fault = "none")
          => (malloc_call.ptr # 0 /\ malloc_call.ptr % malloc_call.alignment = 0)
    /\ (user_ptrs = {}) => (heap = {})

\* C17 as stated: in each build, a volk_gnsssdr_malloc call in which the underlying
\* allocator returned null ends by reporting the failure (it returns NULL; it neither
\* traps nor writes to memory), and no call returns a non-null pointer that is not a
\* multiple of the requested alignment.
C17_AllocatorFailure ==
    /\ (~malloc_call.available)
          => (malloc_call.ptr = 0 /\ ~malloc_call.wrote /\ alloc_fault = "none")
    /\ (malloc_call.ptr # 0) => (malloc_call.ptr % malloc_call.alignment = 0)

\* C18 as stated: when one of the three allocations of the constructor returned null,
\* construction has ended in an error outcome and nothing was read or written through
\* the null buffer.
C18_AllocationFailureIsFatal ==
    (last_call = "none" /\ buffer_is_null) => (fault # "none" /\ ~null_access)

\* C19 as stated: start_tracking called while no hint was supplied (the buffers being
\* allocated) ends in a fatal error outcome, without having read through the absent
\* hint and without leaving tracking enabled.
C19_AcquisitionAbsent ==
    (last_call = "start_tracking" /\ d_acquisition_gnss_synchro = "null" /\ ~buffer_is_null)
        => (fault # "none" /\ ~null_access /\ ~d_enable_tracking)

C21_EvaluationOnTwentiethPush ==
    [][TrackingStep =>
          /\ prompt_stored'
          /\ lock_evaluated' <=> (d_cn0_estimation_counter = CN0_ESTIMATION_SAMPLES - 1)
          /\ lock_evaluated' => (d_cn0_estimation_counter' = 0)
          /\ d_cn0_estimation_counter' < CN0_ESTIMATION_SAMPLES]_vars

\* C21 amended: the window index stays in 0 .. 20 and only a LOCKED period changes it
\* (start_tracking, the pull-in period and idle periods leave it alone).  A LOCKED period
\* that begins with the index below 20 stores its Prompt at the index and adds one to the
\* index, without evaluating; a LOCKED period that begins with the index at 20 stores no
\* Prompt, recomputes the lock indicators from the 20 stored ones, counts lock_fail_counter
\* up or down (not below 0) and resets the index to 0.  So evaluations occur once every
\* 21 LOCKED periods and the Prompt of each evaluating period is skipped.
C21_EvaluationAfterTwentiethPush ==
    [][/\ d_cn0_estimation_counter' \in 0 .. CN0_ESTIMATION_SAMPLES
       /\ (~TrackingStep) => (d_cn0_estimation_counter' = d_cn0_estimation_counter)
       /\ (~TrackingStep /\ WorkStep) => (~prompt_stored' /\ ~lock_evaluated')
       /\ TrackingStep =>
             IF d_cn0_estimation_counter < CN0_ESTIMATION_SAMPLES
             THEN /\ prompt_stored'
                  /\ ~lock_evaluated'
                  /\ d_cn0_estimation_counter' = d_cn0_estimation_counter + 1
                  /\ lock_fail_peak' = d_carrier_lock_fail_counter
                  /\ UNCHANGED <<d_carrier_lock_fail_counter, d_carrier_lock_test, d_CN0_SNV_dB_Hz>>
             ELSE /\ ~prompt_stored'
                  /\ lock_evaluated'
                  /\ d_cn0_estimation_counter' = 0
                  /\ lock_fail_peak' =
                        (IF StoredLockFailure THEN d_carrier_lock_fail_counter + 1
                         ELSE IF d_carrier_lock_fail_counter > 0 THEN d_carrier_lock_fail_counter - 1
                              ELSE 0)]_vars

\* the second evaluation since an activation has just been made, in a period that stored
\* no Prompt: two failures are counted
C21_Witness ==
    /\ last_call = "tracking"
    /\ lock_evaluated
    /\ ~prompt_stored
    /\ d_cn0_estimation_counter = 0
    /\ all_failed
    /\ d_carrier_lock_fail_counter = 2
    /\ periods_since_start = 1 + 2 * (CN0_ESTIMATION_SAMPLES + 1)

\* C22 as stated: in every LOCKED period the correlator is run over exactly
\* current_prn_length_samples input samples, the block length in force at the start of
\* the period.
C22_CorrelatesOverBlockLength ==
    [][TrackingStep => (correlated' = d_current_prn_length_samples)]_vars

\* the step is a volk_gnsssdr_malloc call in which the underlying malloc gave a block
MallocStep == malloc_call'.available /\ heap' \ heap # {}

\* the block the underlying malloc gave in this step
NewBlock == CHOOSE b \in heap' \ heap : TRUE

\* C23 as stated: in the fallback build, whatever the size, the power-of-two alignment
\* and the address of the block the underlying malloc gave, the header holding that
\* address lies inside the block and ends where the user region begins, the user region
\* [user, user + size) lies inside the block, and volk_gnsssdr_free(user) gives the
\* block back to free.
C23_FallbackLayoutRoundTrip ==
    [][(alloc_build = "fallback") =>
          /\ MallocStep =>
                LET b == NewBlock
                    user == malloc_call'.ptr
                    size == malloc_call'.size
                    info == user - sizeof_block_info
                IN  /\ block_info'[info] = b.real
                    /\ b.real <= info
                    /\ info + sizeof_block_info - 1 <= b.real + b.len - 1
                    /\ info + sizeof_block_info = user
                    /\ user + size - 1 <= b.real + b.len - 1
          /\ \A user \in user_ptrs :
                (user_ptrs' = user_ptrs \ {user} /\ block_info[user - sizeof_block_info] # 0)
                    => (\E b \in heap : user \in BlockBytes(b) /\ heap' = heap \ {b})]_vars

\* C24 as stated: a pull-in period whose offset round(acq_delay_samples + shift) is
\* negative ends in an error outcome, consumes nothing and leaves sample_counter unchanged.
C24_NegativeOffsetRejected ==
    [][(PullInStep /\ PullInOffset < 0) =>
          /\ fault' # "none"
          /\ consumed' = 0
          /\ nitems_read' = nitems_read
          /\ d_sample_counter' = d_sample_counter]_vars

\* C25 as stated: in a pull-in with sample_counter >= acq_sample_stamp and the delay in
\* [0, L), however large the difference of the two, the counter after the pull-in is
\* congruent to acq_sample_stamp + round(delay) modulo the block length L and the offset
\* lies in (0, 2 L).
C25_PullInOverWholeRange ==
    [][(PullInStep /\ PullInCase) =>
          LET L == d_current_prn_length_samples
          IN  /\ (d_sample_counter' - d_acq_sample_stamp - RoundedDelay(d_acq_code_phase_samples)) % L = 0
              /\ 0 < consumed'
              /\ consumed' < 2 * L]_vars

\* C26 as stated: every general_work call, pull-in, tracking or idle, consumes between 0
\* and 2 * vector_length samples, the number forecast() asks for, and its correlator reads
\* at most as many.
C26_ConsumesWithinForecast ==
    (last_call \in WorkCalls) =>
        /\ 0 <= consumed
        /\ consumed <= ninput_items_required
        /\ correlated <= ninput_items_required

\* C27: a general_work call publishes a message only if it is a LOCKED period in which
\* enabled goes from true to false, and then it publishes one; a pull-in or idle period
\* publishes nothing; and no message is published when one was already published since
\* the last start_tracking call.
C27_EventsNeitherSpuriousNorRepeated ==
    [][WorkStep =>
          /\ (events' # <<>>) =>
                /\ TrackingStep
                /\ Len(events') = 1
                /\ d_enable_tracking /\ ~d_enable_tracking'
                /\ ~lost_since_start
          /\ (PullInStep \/ IdleStep) => (events' = <<>>)]_vars

\* a second loss of lock has just been published, after a re-activation that followed
\* the first one
C27_Witness ==
    /\ last_call = "tracking"
    /\ events = <<loss_of_lock_message>>
    /\ ~d_enable_tracking
    /\ lost_since_start
    /\ d_sample_counter > (2 * LossOfLockPeriods - CN0_ESTIMATION_SAMPLES) * d_vector_length

\* C28 as stated: after every period that follows a start_tracking called with one hint on
\* a controller with a history and on a freshly constructed one, both given the same
\* correlator and filter results, the two have the same code_freq_chips, prompt-window
\* index, cn0, carrier_lock_test, lock_fail_counter and enabled flag, and have published
\* the loss of lock in the same periods.
C28_ActivationForgetsHistory ==
    (fresh.activated /\ last_call \in WorkCalls) =>
        /\ d_code_freq_chips = fresh.d_code_freq_chips
        /\ d_cn0_estimation_counter = fresh.d_cn0_estimation_counter
        /\ d_CN0_SNV_dB_Hz = fresh.d_CN0_SNV_dB_Hz
        /\ d_carrier_lock_test = fresh.d_carrier_lock_test
        /\ d_carrier_lock_fail_counter = fresh.d_carrier_lock_fail_counter
        /\ d_enable_tracking = fresh.d_enable_tracking
        /\ events = fresh.events

\* C29 as stated: in every LOCKED period the phase added to rem_carr_phase_rad (before the
\* reduction modulo 2 pi) and subtracted from acc_carrier_phase_rad is the carrier phase
\* step per sample, 2 pi * carrier_doppler_hz / fs, times the number of samples the
\* period consumes.
C29_PhaseAdvanceOverConsumed ==
    [][TrackingStep =>
          LET advance == (GALILEO_TWO_PI * d_carrier_doppler_hz' * consumed') \div d_fs_in
          IN  /\ d_acc_carrier_phase_rad' = d_acc_carrier_phase_rad - advance
              /\ d_rem_carr_phase_rad' = fmod(d_rem_carr_phase_rad + advance, GALILEO_TWO_PI)]_vars

====
